---- MODULE Spec2Model ----
(***************************************************************************)
(* Model of scripts/agent-bot.py: the HTTP helper act(body, retries) and   *)
(* the polling loop run().                                                 *)
(*                                                                         *)
(* A decoded JSON object is a function from field names to values whose    *)
(* DOMAIN holds exactly the fields that are present, so dict.get(k, def)   *)
(* is Get(obj, k, def).  A text field is modelled by what the code asks of *)
(* it: the error text by membership in RateLimitTexts ("Rate limit" in     *)
(* error), the narrative by the set of marker substrings it contains.      *)
(* Server responses are taken well typed (numbers where the code compares  *)
(* numbers, a resource in every inventory entry, retryAfterSec >= 0);      *)
(* fields the code reads with a default may be absent.                     *)
(* Log output and the cycle counter c, which only feeds the log, are not   *)
(* modelled.                                                               *)
(***************************************************************************)
EXTENDS Integers, Sequences, FiniteSets, TLC

VARIABLES
    pc,       \* "start": top of run()'s while; "act": in act's for loop; "ret": act returned
    cont,     \* the place in run() that called act
    body,     \* act: the request body
    retries,  \* act: the retries argument
    tries,    \* act: POST attempts made so far in this call
    d,        \* act: the last decoded response
    outcome,  \* act: how the last attempt ended
    slept,    \* act: seconds slept by the last attempt
    ret,      \* act: the returned value
    s,        \* run: the look snapshot of the cycle
    r,        \* run: numerator of the uniform draw (r = r / RDenom), NoDraw if none
    n_item,   \* run: position in "for item in inv[:3]"
    sent,     \* bodies run() passed to act after the look of this cycle
    first_ok, \* whether the first of them succeeded ("none" until it returns)
    naps      \* seconds slept by run() in this cycle, one entry per time.sleep

vars == <<pc, cont, body, retries, tries, d, outcome, slept, ret, s, r, n_item, sent, first_ok, naps>>

(* ------------------------------ bounds -------------------------------- *)
MaxRetries == 4   \* largest retries argument tried on act in isolation
MaxInv == 4       \* longest inventory list in a look response
RDenom == 20      \* the uniform draw takes the values 0/RDenom .. (RDenom-1)/RDenom

(* ------------------------ program constants --------------------------- *)
DefaultRetries == 3
DefaultRetryAfterSec == 3
RateLimitMargin == 1
ExceptionSleep == 5
LookSleep == 6
FailedLookSleep == 10
RestSleep == 65
ActionSleep == 6
DefaultHp == 0
DefaultMaxHp == 100
DefaultEnergy == 0
EnergyThreshold == 15
InvThreshold == 8
SellLimit == 3
WaitMin == 10
WaitMax == 20

NoDraw == -1

(* ------------------------- JSON objects ------------------------------- *)
Get(obj, k, def) == IF k \in DOMAIN obj THEN obj[k] ELSE def

Opt(k, V) == {<<>>} \cup {k :> v : v \in V}
Merge(A, B) == {x @@ y : x \in A, y \in B}

RateLimitTexts == {"Rate limit exceeded"}
ErrorTexts == RateLimitTexts \cup {"Unknown action"}
Markers == {"IN COMBAT", "Seaweed", "Sand Dollars"}

\* agents without an isAlive flag; an agent that carries the flag is sampled
\* with default maxHp and location
UnflaggedAgents ==
    Merge({"hp" :> v : v \in {0, 39, 40}},
    Merge(Opt("maxHp", {50}),
    Merge(Opt("energy", {14, 15}),
          Opt("location", {"trading_post", "deep"}))))
FlaggedAgents ==
    Merge({"hp" :> v : v \in {0, 39, 40}},
    Merge(Opt("energy", {14, 15}),
          {"isAlive" :> b : b \in BOOLEAN}))
Agents == {<<>>} \cup UnflaggedAgents \cup FlaggedAgents

InvEntries == {[resource |-> "pearl", quantity |-> 4], [resource |-> "seaweed"]}
Inventories == UNION {[1..n -> InvEntries] : n \in 0..MaxInv}

RateLimitResponses ==
    Merge({[success |-> FALSE, error |-> e] : e \in RateLimitTexts},
          Opt("retryAfterSec", {2}))
FailureResponses ==
    {<<>>} \cup {[success |-> FALSE, error |-> e] : e \in ErrorTexts \ RateLimitTexts}
Snapshots ==
    Merge({[success |-> TRUE]},
    Merge(Opt("agent", Agents \ {<<>>}),
    Merge(Opt("narrative", SUBSET Markers \ {{}}),
          Opt("inventory", Inventories \ {<<>>}))))
ActionResults == {[success |-> TRUE]} \cup FailureResponses
Responses(b) ==
    RateLimitResponses \cup
        (IF b.action = "look" THEN Snapshots \cup FailureResponses ELSE ActionResults)

Bodies ==
    {[action |-> x] : x \in {"look", "rest", "flee", "status"}}
    \cup {[action |-> "move", target |-> t] : t \in {"trading_post", "shallows"}}
    \cup {[action |-> "gather", target |-> t] : t \in {"seaweed", "sand_dollars"}}
    \cup {[action |-> "sell", target |-> e.resource] : e \in InvEntries}
    \cup {[action |-> "quest", target |-> "list"]}

(* ------------------------------- act ---------------------------------- *)
\* variant: a failure response is taken for a rate limit and retried
IsRateLimitedOrFailed(resp) ==
    Get(resp, "error", "") \in RateLimitTexts \/ Get(resp, "success", FALSE) # TRUE

IsRateLimited(resp) == Get(resp, "error", "") \in RateLimitTexts

\* variant: the server-supplied duration is ignored
RateLimitSleepFixed(resp) == DefaultRetryAfterSec + RateLimitMargin

RateLimitSleep(resp) == Get(resp, "retryAfterSec", DefaultRetryAfterSec) + RateLimitMargin

MayAttempt == tries < retries

runVars == <<cont, s, r, n_item, sent, first_ok, naps>>

PostRaises ==
    /\ pc = "act" /\ MayAttempt
    /\ tries' = tries + 1
    /\ outcome' = "raised"
    /\ slept' = ExceptionSleep
    /\ UNCHANGED <<pc, body, retries, d, ret>>
    /\ UNCHANGED runVars

PostRateLimited ==
    /\ pc = "act" /\ MayAttempt
    /\ \E resp \in Responses(body) :
          /\ IsRateLimited(resp)
          /\ d' = resp
          /\ slept' = RateLimitSleep(resp)
    /\ tries' = tries + 1
    /\ outcome' = "rate_limited"
    /\ UNCHANGED <<pc, body, retries, ret>>
    /\ UNCHANGED runVars

PostReturns ==
    /\ pc = "act" /\ MayAttempt
    /\ \E resp \in Responses(body) :
          /\ ~IsRateLimited(resp)
          /\ d' = resp
          /\ ret' = resp
    /\ tries' = tries + 1
    /\ outcome' = "returned"
    /\ slept' = 0
    /\ pc' = "ret"
    /\ UNCHANGED <<body, retries>>
    /\ UNCHANGED runVars

ActExhausted ==
    /\ pc = "act" /\ ~MayAttempt
    /\ ret' = [success |-> FALSE]
    /\ pc' = "ret"
    /\ UNCHANGED <<body, retries, tries, d, outcome, slept>>
    /\ UNCHANGED runVars

act(b, k) ==
    /\ body' = b
    /\ retries' = DefaultRetries
    /\ tries' = 0
    /\ d' = <<>>
    /\ outcome' = "none"
    /\ slept' = 0
    /\ ret' = <<>>
    /\ cont' = k
    /\ pc' = "act"

(* ------------------------------- run ---------------------------------- *)
a == Get(s, "agent", <<>>)
hp == Get(a, "hp", DefaultHp)
mhp == Get(a, "maxHp", DefaultMaxHp)
en == Get(a, "energy", DefaultEnergy)
zone == Get(a, "location", "shallows")
inv == Get(s, "inventory", <<>>)
narr == Get(s, "narrative", {})

RECURSIVE SumQuantity(_)
SumQuantity(lst) ==
    IF lst = <<>> THEN 0
    ELSE Get(Head(lst), "quantity", 0) + SumQuantity(Tail(lst))

inv_count == SumQuantity(inv)

Truthy(resp) == Get(resp, "success", FALSE) = TRUE

\* the note kept of the first result of the cycle
Noted(resp) ==
    IF first_ok # "none" THEN first_ok
    ELSE IF Truthy(resp) THEN "ok" ELSE "failed"

\* variant: hp == 0 is not checked
DeadFlagOnly == ~Get(a, "isAlive", TRUE)

Dead == ~Get(a, "isAlive", TRUE) \/ hp = 0

InCombat == "IN COMBAT" \in narr

\* variant: the energy threshold is not checked
LowResourcesHpOnly == hp * 10 < mhp * 4

\* hp < mhp * 0.4 or en < 15; for integers hp < mhp * 0.4 is 10 hp < 4 mhp
LowResources == hp * 10 < mhp * 4 \/ en < EnergyThreshold

InventoryFull == inv_count >= InvThreshold

\* variant: the list is not cut to its first three entries
ItemsAll == inv

items == SubSeq(inv, 1, IF Len(inv) < SellLimit THEN Len(inv) ELSE SellLimit)

\* variant: the marker text itself is used as the target
ResMarkers ==
    (IF "Seaweed" \in narr THEN <<"Seaweed">> ELSE <<>>)
    \o (IF "Sand Dollars" \in narr THEN <<"Sand Dollars">> ELSE <<>>)

res ==
    (IF "Seaweed" \in narr THEN <<"seaweed">> ELSE <<>>)
    \o (IF "Sand Dollars" \in narr THEN <<"sand_dollars">> ELSE <<>>)

other == IF zone = "shallows" THEN "trading_post" ELSE "shallows"

\* r < 0.4, r < 0.7, r < 0.85 for r = k / RDenom
Below40(k) == k * 10 < 4 * RDenom
\* variant: r <= 0.7
Below70Inclusive(k) == k * 10 <= 7 * RDenom
Below70(k) == k * 10 < 7 * RDenom
Below85(k) == k * 100 < 85 * RDenom

\* "continue": back to the top of the while loop
Continue ==
    /\ pc' = "start"
    /\ cont' = "run"
    /\ body' = <<>> /\ tries' = 0 /\ d' = <<>> /\ outcome' = "none"
    /\ slept' = 0 /\ ret' = <<>>
    /\ UNCHANGED retries

\* s = act({"action": "look"})
Look ==
    /\ pc = "start"
    /\ act([action |-> "look"], "look")
    /\ s' = <<>> /\ r' = NoDraw /\ n_item' = 0
    /\ sent' = <<>> /\ first_ok' = "none" /\ naps' = <<>>

\* variant: the extra 10 s sleep is skipped
LookFailedNoBackoff ==
    /\ pc = "ret" /\ cont = "look"
    /\ s' = ret
    /\ ~Truthy(ret)
    /\ naps' = <<LookSleep>>
    /\ Continue
    /\ UNCHANGED <<r, n_item, sent, first_ok>>

\* time.sleep(6); if not s.get("success"): time.sleep(10); continue
LookFailed ==
    /\ pc = "ret" /\ cont = "look"
    /\ s' = ret
    /\ ~Truthy(ret)
    /\ naps' = <<LookSleep, FailedLookSleep>>
    /\ Continue
    /\ UNCHANGED <<r, n_item, sent, first_ok>>

\* Dead? Rest
DeadRest ==
    /\ pc = "ret" /\ cont = "look"
    /\ s' = ret
    /\ Truthy(ret)
    /\ Dead'
    /\ naps' = <<LookSleep>>
    /\ sent' = <<[action |-> "rest"]>>
    /\ act([action |-> "rest"], "rest")
    /\ UNCHANGED <<r, n_item, first_ok>>

\* Combat? Flee
CombatFlee ==
    /\ pc = "ret" /\ cont = "look"
    /\ s' = ret
    /\ Truthy(ret)
    /\ ~Dead' /\ InCombat'
    /\ naps' = <<LookSleep>>
    /\ sent' = <<[action |-> "flee"]>>
    /\ act([action |-> "flee"], "flee")
    /\ UNCHANGED <<r, n_item, first_ok>>

\* Low HP/Energy? Rest
LowRest ==
    /\ pc = "ret" /\ cont = "look"
    /\ s' = ret
    /\ Truthy(ret)
    /\ ~Dead' /\ ~InCombat' /\ LowResources'
    /\ naps' = <<LookSleep>>
    /\ sent' = <<[action |-> "rest"]>>
    /\ act([action |-> "rest"], "rest")
    /\ UNCHANGED <<r, n_item, first_ok>>

\* variant: the long sleep follows a successful rest only
AfterRestOnlyIfOk ==
    /\ pc = "ret" /\ cont = "rest"
    /\ first_ok' = Noted(ret)
    /\ naps' = Append(naps, IF Truthy(ret) THEN RestSleep ELSE ActionSleep)
    /\ Continue
    /\ UNCHANGED <<s, r, n_item, sent>>

\* after act({"action": "rest"}): time.sleep(65); continue
AfterRest ==
    /\ pc = "ret" /\ cont = "rest"
    /\ first_ok' = Noted(ret)
    /\ naps' = Append(naps, RestSleep)
    /\ Continue
    /\ UNCHANGED <<s, r, n_item, sent>>

\* after act({"action": "flee"}): time.sleep(6); continue
AfterFlee ==
    /\ pc = "ret" /\ cont = "flee"
    /\ first_ok' = Noted(ret)
    /\ naps' = Append(naps, ActionSleep)
    /\ Continue
    /\ UNCHANGED <<s, r, n_item, sent>>

\* for item in inv[:3]: act({"action": "sell", ...}), entered at item k + 1
SellNext(k) ==
    IF k < Len(items)
    THEN /\ n_item' = k + 1
         /\ sent' = Append(sent, [action |-> "sell", target |-> items[k + 1].resource])
         /\ act([action |-> "sell", target |-> items[k + 1].resource], "sell")
    ELSE /\ n_item' = k
         /\ sent' = sent
         /\ Continue

\* Inventory full? Sell
SellStart ==
    /\ pc = "ret" /\ cont = "look"
    /\ s' = ret
    /\ Truthy(ret)
    /\ ~Dead' /\ ~InCombat' /\ ~LowResources' /\ InventoryFull'
    /\ naps' = <<LookSleep>>
    /\ IF zone' # "trading_post"
       THEN /\ sent' = <<[action |-> "move", target |-> "trading_post"]>>
            /\ act([action |-> "move", target |-> "trading_post"], "sell_move")
            /\ n_item' = 0
       ELSE /\ n_item' = 1
            /\ sent' = <<[action |-> "sell", target |-> items'[1].resource]>>
            /\ act([action |-> "sell", target |-> items'[1].resource], "sell")
    /\ UNCHANGED <<r, first_ok>>

\* variant: nothing is sold when the move failed
AfterSellMoveIfOk ==
    /\ pc = "ret" /\ cont = "sell_move"
    /\ first_ok' = Noted(ret)
    /\ naps' = Append(naps, ActionSleep)
    /\ IF Truthy(ret) THEN SellNext(0)
       ELSE n_item' = 0 /\ sent' = sent /\ Continue
    /\ UNCHANGED <<s, r>>

\* after the move to the trading post: time.sleep(6), then the sell loop
AfterSellMove ==
    /\ pc = "ret" /\ cont = "sell_move"
    /\ first_ok' = Noted(ret)
    /\ naps' = Append(naps, ActionSleep)
    /\ SellNext(0)
    /\ UNCHANGED <<s, r>>

\* after a sell: time.sleep(6), then the next item or continue
AfterSell ==
    /\ pc = "ret" /\ cont = "sell"
    /\ first_ok' = Noted(ret)
    /\ naps' = Append(naps, ActionSleep)
    /\ SellNext(n_item)
    /\ UNCHANGED <<s, r>>

\* w = random.randint(10, 20); time.sleep(w)
Wait(slept_so_far) ==
    \E w \in WaitMin..WaitMax :
        /\ naps' = Append(slept_so_far, w)
        /\ Continue

\* Random actions
RandomAction ==
    /\ pc = "ret" /\ cont = "look"
    /\ s' = ret
    /\ Truthy(ret)
    /\ ~Dead' /\ ~InCombat' /\ ~LowResources' /\ ~InventoryFull'
    /\ \E k \in 0..(RDenom - 1) :
          /\ r' = k
          /\ IF Below40(k)
             THEN IF res' # <<>>
                  THEN /\ sent' = <<[action |-> "gather", target |-> res'[1]]>>
                       /\ act([action |-> "gather", target |-> res'[1]], "random")
                       /\ naps' = <<LookSleep>>
                  ELSE /\ sent' = <<>>
                       /\ Wait(<<LookSleep>>)
             ELSE IF Below70(k)
             THEN /\ sent' = <<[action |-> "move", target |-> other']>>
                  /\ act([action |-> "move", target |-> other'], "random")
                  /\ naps' = <<LookSleep>>
             ELSE IF Below85(k)
             THEN /\ sent' = <<[action |-> "quest", target |-> "list"]>>
                  /\ act([action |-> "quest", target |-> "list"], "random")
                  /\ naps' = <<LookSleep>>
             ELSE /\ sent' = <<[action |-> "status"]>>
                  /\ act([action |-> "status"], "random")
                  /\ naps' = <<LookSleep>>
    /\ UNCHANGED <<n_item, first_ok>>

\* after the random action: time.sleep(6), then the 10-20 s wait
AfterRandom ==
    /\ pc = "ret" /\ cont = "random"
    /\ first_ok' = Noted(ret)
    /\ Wait(Append(naps, ActionSleep))
    /\ UNCHANGED <<s, r, n_item, sent>>

(* --------------------------- specifications --------------------------- *)
Init ==
    /\ pc = "start" /\ cont = "run"
    /\ body = <<>> /\ retries = DefaultRetries /\ tries = 0
    /\ d = <<>> /\ outcome = "none" /\ slept = 0 /\ ret = <<>>
    /\ s = <<>> /\ r = NoDraw /\ n_item = 0
    /\ sent = <<>> /\ first_ok = "none" /\ naps = <<>>

Next ==
    \/ Look
    \/ PostRaises
    \/ PostRateLimited
    \/ PostReturns
    \/ ActExhausted
    \/ LookFailed
    \/ DeadRest
    \/ CombatFlee
    \/ LowRest
    \/ AfterRest
    \/ AfterFlee
    \/ SellStart
    \/ AfterSellMove
    \/ AfterSell
    \/ RandomAction
    \/ AfterRandom

Spec == Init /\ [][Next]_vars

\* act(body, retries) on its own, for any body and any retries
InitAct ==
    /\ pc = "act" /\ cont = "caller"
    /\ body \in Bodies /\ retries \in 0..MaxRetries /\ tries = 0
    /\ d = <<>> /\ outcome = "none" /\ slept = 0 /\ ret = <<>>
    /\ s = <<>> /\ r = NoDraw /\ n_item = 0
    /\ sent = <<>> /\ first_ok = "none" /\ naps = <<>>

NextAct ==
    \/ PostRaises
    \/ PostRateLimited
    \/ PostReturns
    \/ ActExhausted

SpecAct == InitAct /\ [][NextAct]_vars

(* ------------------------------ claims -------------------------------- *)
LookOk == Get(s, "success", FALSE) = TRUE
Alive == Get(a, "isAlive", TRUE) /\ hp # 0
Fighting == "IN COMBAT" \in narr
Low == hp * 10 < mhp * 4 \/ en < 15
Full == inv_count >= 8
CycleOver == pc = "start" /\ naps # <<>>
Rest == [action |-> "rest"]
MoveToPost == [action |-> "move", target |-> "trading_post"]
Min(x, y) == IF x < y THEN x ELSE y

\* the bodies the sell branch is expected to send, in order
ExpectedSell ==
    (IF zone # "trading_post" THEN <<MoveToPost>> ELSE <<>>)
    \o [i \in 1..Min(3, Len(inv)) |-> [action |-> "sell", target |-> inv[i].resource]]

IsPrefix(p, q) == Len(p) <= Len(q) /\ \A i \in 1..Len(p) : p[i] = q[i]

\* C1 (as stated): a cycle whose look succeeded calls act exactly once
\* after the look.
C1_OneActionPerCycle ==
    (CycleOver /\ LookOk) => Len(sent) = 1

ExpectedActions ==
    IF ~Alive \/ Fighting \/ Low THEN 1
    ELSE IF Full THEN Len(ExpectedSell)
    ELSE IF r * 10 < 4 * RDenom /\ narr \cap {"Seaweed", "Sand Dollars"} = {} THEN 0
    ELSE 1

\* C1 (amended): a cycle whose look succeeded calls act once in the rest,
\* flee, move, quest and status branches, once or not at all in the gather
\* branch (not at all when the narrative names no resource), and in the sell
\* branch once per sold entry plus once for the move (one to four calls).
C1_ActionsPerCycle ==
    (CycleOver /\ LookOk) =>
        /\ Len(sent) = ExpectedActions
        /\ first_ok = "none" <=> sent = <<>>
        /\ Len(sent) <= 4

C1_Witness == CycleOver /\ LookOk /\ Len(sent) = 4 /\ Len(inv) = 4

\* C2: act makes at most retries attempts; every attempt before the last
\* one made was rate limited or raised; it returns the first response whose
\* error does not contain "Rate limit" and attempts nothing after it; it
\* returns {"success": False} when all retries attempts were rate limited
\* or raised.
C2_ActBounded ==
    /\ [](/\ tries <= retries
          /\ (pc = "act" => outcome \in {"none", "raised", "rate_limited"})
          /\ (outcome = "rate_limited" => Get(d, "error", "") \in RateLimitTexts)
          /\ (pc = "ret" =>
                \/ /\ outcome = "returned"
                   /\ tries >= 1
                   /\ ret = d
                   /\ Get(d, "error", "") \notin RateLimitTexts
                \/ /\ outcome # "returned"
                   /\ tries = retries
                   /\ ret = [success |-> FALSE]))
    /\ [][/\ pc = "ret" => tries' = tries
          /\ pc = "act" => (tries' = tries + 1 \/ (tries' = tries /\ pc' = "ret"))
          /\ body' = body]_vars

C2_Witness ==
    /\ pc = "ret" /\ outcome = "returned" /\ retries = 3 /\ tries = 3
    /\ ret = [success |-> FALSE, error |-> "Unknown action"]

\* C3 (as stated): after a rate-limited response act sleeps exactly
\* retryAfterSec seconds (3 when absent).
C3_SleepEqualsRetryAfter ==
    outcome = "rate_limited" => slept = Get(d, "retryAfterSec", 3)

\* C3 (amended): after a rate-limited response act sleeps retryAfterSec + 1
\* seconds (4 when absent); it then posts the same body again when attempts
\* remain and returns {"success": False} when none does.
C3_RateLimitSleep ==
    [][(pc = "act" /\ outcome = "rate_limited") =>
          /\ slept = Get(d, "retryAfterSec", 3) + 1
          /\ IF tries < retries
             THEN body' = body /\ tries' = tries + 1
             ELSE pc' = "ret" /\ ret' = [success |-> FALSE] /\ tries' = tries]_vars

C3_Witness ==
    /\ pc = "act" /\ outcome = "rate_limited" /\ tries = 2 /\ retries = 3
    /\ "retryAfterSec" \in DOMAIN d /\ slept = 3

ActionNames == {"look", "rest", "flee", "move", "sell", "gather", "quest", "status"}
Literals == {"trading_post", "shallows", "seaweed", "sand_dollars", "list"}

\* C4 (as stated): every request names an action of the fixed set and every
\* target is one of the string literals of the program.
C4_LiteralTargets ==
    body # <<>> =>
        /\ body.action \in ActionNames
        /\ "target" \in DOMAIN body => body.target \in Literals

\* C4 (amended): every request names an action of the fixed set; the target
\* of a request other than sell is one of the string literals of the program;
\* the target of a sell is the resource of an entry of the inventory the
\* look of the cycle returned, a value taken from the server response.
C4_Targets ==
    body # <<>> =>
        /\ body.action \in ActionNames
        /\ ("target" \in DOMAIN body /\ body.action # "sell") => body.target \in Literals
        /\ body.action = "sell" =>
              /\ "target" \in DOMAIN body
              /\ \E i \in 1..Len(inv) : inv[i].resource = body.target

C4_Witness ==
    /\ pc = "act" /\ tries >= 1
    /\ body = [action |-> "sell", target |-> "pearl"]

\* C5: when a rest returns, whatever it returned, run sleeps 65 seconds and
\* goes back to the top of the loop without calling act; the next request is
\* the look of the next cycle.
C5_RestThenSleep65 ==
    /\ []((CycleOver /\ sent # <<>> /\ sent[Len(sent)] = Rest) =>
              (sent = <<Rest>> /\ naps = <<6, 65>>))
    /\ [][/\ (pc = "ret" /\ body = Rest) =>
                (pc' = "start" /\ naps' = Append(naps, 65) /\ sent' = sent)
          /\ pc = "start" => (pc' = "act" /\ body' = [action |-> "look"])]_vars

C5_Witness ==
    /\ CycleOver /\ sent = <<Rest>> /\ first_ok = "failed" /\ naps = <<6, 65>>
    /\ Alive /\ ~Fighting

\* C6: a snapshot of a living agent out of combat that is low on HP
\* (hp < 0.4 maxHp) or on energy (energy < 15) leads to one rest and to no
\* other action in its cycle.
C6_LowOnlyRest ==
    (LookOk /\ Get(a, "isAlive", TRUE) /\ hp # 0
        /\ "IN COMBAT" \notin narr
        /\ (hp * 10 < mhp * 4 \/ en < 15))
    => sent = <<Rest>>

C6_Witness ==
    /\ CycleOver /\ LookOk /\ Alive /\ ~Fighting
    /\ hp = 40 /\ mhp = 100 /\ en = 14 /\ Full
    /\ sent = <<Rest>>

\* C7: the random stage is reached exactly by the snapshots of a living
\* agent out of combat, above the rest thresholds, with fewer than 8 items;
\* there the draw r selects gather for r < 0.4, a move to the other zone for
\* 0.4 <= r < 0.7, quest list for 0.7 <= r < 0.85 and status for r >= 0.85,
\* one category for every r.
C7_RandomDraw ==
    /\ r # NoDraw <=> (LookOk /\ Alive /\ ~Fighting /\ ~Low /\ inv_count < 8)
    /\ r # NoDraw =>
          /\ r \in 0..(RDenom - 1)
          /\ r * 10 < 4 * RDenom =>
                sent = IF "Seaweed" \in narr
                          THEN <<[action |-> "gather", target |-> "seaweed"]>>
                       ELSE IF "Sand Dollars" \in narr
                          THEN <<[action |-> "gather", target |-> "sand_dollars"]>>
                       ELSE <<>>
          /\ (4 * RDenom <= r * 10 /\ r * 10 < 7 * RDenom) =>
                sent = <<[action |-> "move",
                          target |-> IF zone = "shallows" THEN "trading_post"
                                     ELSE "shallows"]>>
          /\ (7 * RDenom <= r * 10 /\ r * 100 < 85 * RDenom) =>
                sent = <<[action |-> "quest", target |-> "list"]>>
          /\ 85 * RDenom <= r * 100 =>
                sent = <<[action |-> "status"]>>

C7_Witness ==
    /\ CycleOver /\ r # NoDraw /\ r * 10 >= 7 * RDenom
    /\ sent = <<[action |-> "quest", target |-> "list"]>>

\* C8: the branches are tried in the order dead, combat, low resources, full
\* inventory, random: a dead snapshot yields rest whatever else it holds, a
\* living one in combat yields only flee, a low one out of combat only rest,
\* a full one a move to the trading post or a sell and no random draw.
C8_BranchPriority ==
    LookOk =>
        /\ (~Get(a, "isAlive", TRUE) \/ hp = 0) => sent = <<Rest>>
        /\ (Alive /\ "IN COMBAT" \in narr) => sent = <<[action |-> "flee"]>>
        /\ (Alive /\ ~Fighting /\ Low) => sent = <<Rest>>
        /\ (Alive /\ ~Fighting /\ ~Low /\ Full) =>
              (r = NoDraw /\ sent # <<>> /\ sent[1].action \in {"move", "sell"})

C8_Witness ==
    /\ CycleOver /\ LookOk /\ Alive /\ Fighting /\ Low /\ Full
    /\ sent = <<[action |-> "flee"]>>

\* C9: a cycle in the sell branch sends a move to trading_post exactly when
\* the location is another one, then one sell for each of the first
\* min(3, n) inventory entries in order, whatever the move returned; it draws
\* no random action and sleeps 6 seconds after the look and after each
\* request, without the 10-20 s wait.
C9_SellBranch ==
    (LookOk /\ Alive /\ ~Fighting /\ ~Low /\ Full) =>
        /\ r = NoDraw
        /\ IsPrefix(sent, ExpectedSell)
        /\ CycleOver =>
              /\ sent = ExpectedSell
              /\ naps = [i \in 1..(Len(sent) + 1) |-> 6]

C9_Witness ==
    /\ CycleOver /\ LookOk /\ Alive /\ ~Fighting /\ ~Low /\ Full
    /\ Len(inv) = 4 /\ sent[1] = MoveToPost /\ first_ok = "failed"
    /\ Len(sent) = 4

\* an upper bound on the steps run() still takes before it is back at the
\* top of the loop: the act calls the cycle may still make, each worth
\* retries + 3 steps, and the attempts the running call may still make
CallsLeft ==
    CASE cont = "look" -> 5
      [] cont = "sell_move" -> 4
      [] cont = "sell" -> Min(3, Len(inv)) - n_item + 1
      [] OTHER -> 1
Rank ==
    IF pc = "start" THEN 0
    ELSE CallsLeft * (retries + 3) + (IF pc = "act" THEN retries - tries + 1 ELSE 0)

\* the steps of run() that follow a return of act
RunStep ==
    \/ LookFailed \/ DeadRest \/ CombatFlee \/ LowRest \/ SellStart
    \/ RandomAction \/ AfterRest \/ AfterFlee \/ AfterSellMove \/ AfterSell
    \/ AfterRandom

\* C10: a cycle whose look did not succeed sends no action and sleeps 6 + 10
\* seconds; from the top of the loop the only step is the look of a new
\* cycle; whatever the requests return or raise, the loop never stops (run
\* has a step to take after every return of act, act has one by its loop
\* bound) and every step away from the top of the loop brings the next look
\* nearer (Rank decreases), so a look is sent again.
C10_FailedLook ==
    /\ [](/\ (CycleOver /\ ~LookOk) =>
                (sent = <<>> /\ r = NoDraw /\ naps = <<6, 10>>)
          /\ pc = "ret" => ENABLED RunStep
          /\ Rank >= 0)
    /\ [][/\ pc = "start" => (pc' = "act" /\ body' = [action |-> "look"])
          /\ pc # "start" => Rank' < Rank
          /\ (pc = "ret" /\ body = [action |-> "look"] /\ ~Truthy(ret)) =>
                (pc' = "start" /\ s' = ret)]_vars

C10_Witness ==
    /\ CycleOver /\ ~LookOk /\ s = [success |-> FALSE]
    /\ sent = <<>> /\ naps = <<6, 10>>

====
